---- MODULE Spec2Model ----
(***************************************************************************)
(* Model of BuildSystem/update_prereqs.py, the prerequisite synchronizer:  *)
(* one run of the script over a manifest, the directories it tests and     *)
(* creates, the process working directory it changes, and the external     *)
(* commands it starts with the exit codes they return.                     *)
(***************************************************************************)
EXTENDS Integers, Sequences, FiniteSets, TLC

VARIABLES
  prereqs,          \* the file prereqs.json: [present, content]
  fs,               \* the set of directories that exist (absolute paths)
  operatingSystem,  \* platform.system()
  procCwd,          \* the working directory of the process (absolute path)
  pc,               \* position of the script
  deps,             \* the loaded manifest
  numChanged,       \* line 19
  cwd,              \* line 20, the captured working directory
  i,                \* index of the manifest entry of `for dep in deps`
  changed,          \* line 34
  j,                \* index of the build command of `for cmd in cmds`
  exitArg,          \* the argument of exit(), -1 while none was made
  exitStatus,       \* the status the caller observes, -1 while running
  log,              \* history: the external commands started, in order
  changedDeps,      \* history: the entries whose changed flag was set True
  existed,          \* history: per entry reached, the test of line 39
  run,              \* the number of this invocation of the script
  aborted,          \* history: entries a build command of which failed in
                    \* an earlier invocation
  responses         \* http_test_server.py: the requests served, each with
                    \* the response written for it

\* the state of one invocation of update_prereqs.py and of what it acts on
scriptVars == <<prereqs, fs, operatingSystem, procCwd, pc, deps, numChanged,
                cwd, i, changed, j, exitArg, exitStatus, log, changedDeps,
                existed>>

\* what no step of an invocation touches
outside == <<run, aborted, responses>>

vars == <<scriptVars, outside>>

\* ---------------------------------------------------------------- bounds
MaxDeps == 2
MaxBuild == 2
MaxExit == 2

\* ------------------------------------------------------------- constants
StatusModulus == 256
UncaughtStatus == 1

\* the directory the process is started in; the value of platform.system();
\* the names manifest entries carry (two entries may share a name)
StartDir == <<"work">>
OSNames == {"Linux"}
Names == {"1", "2"}
ExitCodes == 0..MaxExit

dependancyDir == <<".prereqs">>
dependancySrcDir == <<".prereqs", "Sources">>
dependancyOsDir == <<".prereqs", operatingSystem>>

\* ---------------------------------------------------------- the manifest
Cmds(n) == [k \in 1..n |-> k]
DepRecords == [name : Names, build : {Cmds(n) : n \in 0..MaxBuild}]
Manifests == UNION {[1..n -> DepRecords] : n \in 0..MaxDeps}

\* ------------------------------------------------------- the file system
Prefixes(p) == {SubSeq(p, 1, n) : n \in 1..Len(p)}

\* os.path.exists of a path relative to the working directory
Exists(rel) == (procCwd \o rel) \in fs

\* os.makedirs: the directory and every missing ancestor
Makedirs(dirs, rel) == dirs \cup Prefixes(procCwd \o rel)

\* the value of the expression dependancySrcDir + "/" + name
SrcOf(name) == Append(dependancySrcDir, name)

InitialFs(os) ==
  { {StartDir}
      \cup (IF s THEN Prefixes(StartDir \o dependancySrcDir) ELSE {})
      \cup (IF o THEN Prefixes(StartDir \o <<".prereqs", os>>) ELSE {})
      \cup {StartDir \o <<".prereqs", "Sources", n>> : n \in D} :
    s \in BOOLEAN, o \in BOOLEAN, D \in SUBSET Names } 

\* ------------------------------------------------------ external commands
\* mutants of the two exit-code tests: the test inverted; only exit code 1
\* taken for "update needed"; check_call replaced by call
CallSucceeded_Inverted(code) == code # 0
CallSucceeded_OnlyOne(code) == code # 1
CheckCallRaises_Never(code) == FALSE

\* subprocess.call(cmd, shell=True) == 0
CallSucceeded(code) == code = 0

\* subprocess.check_call raises CalledProcessError on a nonzero exit code
CheckCallRaises(code) == code # 0

\* the status the operating system reports for exit(n)
StatusOf(n) == n % StatusModulus

Entry(kind, step, code, env) ==
  [kind |-> kind, dep |-> i, step |-> step, code |-> code,
   dir |-> procCwd, env |-> env]

\* an uncaught exception ends the process
Raise ==
  /\ pc' = "raised"
  /\ exitStatus' = UncaughtStatus

Init ==
  /\ operatingSystem \in OSNames
  /\ prereqs \in {[present |-> TRUE, content |-> m] : m \in Manifests}
                   \cup {[present |-> FALSE, content |-> <<>>]}
  /\ fs \in {f \in InitialFs(operatingSystem) :
               \A p \in f : Prefixes(p) \subseteq f}
  /\ procCwd = StartDir
  /\ pc = "load"
  /\ deps = <<>>
  /\ numChanged = 0
  /\ cwd = <<>>
  /\ i = 0
  /\ changed = FALSE
  /\ j = 0
  /\ exitArg = -1
  /\ exitStatus = -1
  /\ log = <<>>
  /\ changedDeps = {}
  /\ existed = <<>>
  /\ run = 1
  /\ aborted = {}
  /\ responses = <<>>

\* mutant: a missing manifest reported as an error, exit(1)
LoadFail_ExitOne ==
  /\ pc = "load"
  /\ ~prereqs.present
  /\ pc' = "exited"
  /\ exitArg' = 1
  /\ exitStatus' = StatusOf(1)
  /\ UNCHANGED <<prereqs, fs, operatingSystem, procCwd, deps, numChanged,
                 cwd, i, changed, j, log, changedDeps, existed>>
  /\ UNCHANGED outside

\* lines 12-17: prereqs.json cannot be opened
LoadFail ==
  /\ pc = "load"
  /\ ~prereqs.present
  /\ pc' = "exited"
  /\ exitArg' = 0
  /\ exitStatus' = StatusOf(0)
  /\ UNCHANGED <<prereqs, fs, operatingSystem, procCwd, deps, numChanged,
                 cwd, i, changed, j, log, changedDeps, existed>>
  /\ UNCHANGED outside

\* mutant: lines 28-30 left out
Setup_NoOsDir ==
  /\ pc = "load"
  /\ prereqs.present
  /\ deps' = prereqs.content
  /\ numChanged' = 0
  /\ cwd' = procCwd
  /\ LET withSrc == IF ~Exists(dependancySrcDir)
                    THEN Makedirs(fs, dependancySrcDir) ELSE fs
         withOs == withSrc
     IN fs' = withOs
  /\ i' = 1
  /\ pc' = "loop"
  /\ UNCHANGED <<prereqs, operatingSystem, procCwd, changed, j, exitArg,
                 exitStatus, log, changedDeps, existed>>
  /\ UNCHANGED outside

\* mutant: numChanged initialised to 1
Setup_CountFromOne ==
  /\ pc = "load"
  /\ prereqs.present
  /\ deps' = prereqs.content
  /\ numChanged' = 1
  /\ cwd' = procCwd
  /\ LET withSrc == IF ~Exists(dependancySrcDir)
                    THEN Makedirs(fs, dependancySrcDir) ELSE fs
         withOs == IF (procCwd \o dependancyOsDir) \notin withSrc
                   THEN Makedirs(withSrc, dependancyOsDir) ELSE withSrc
     IN fs' = withOs
  /\ i' = 1
  /\ pc' = "loop"
  /\ UNCHANGED <<prereqs, operatingSystem, procCwd, changed, j, exitArg,
                 exitStatus, log, changedDeps, existed>>
  /\ UNCHANGED outside

\* lines 12-14 and 19-30: load the manifest, create the two roots
Setup ==
  /\ pc = "load"
  /\ prereqs.present
  /\ deps' = prereqs.content
  /\ numChanged' = 0
  /\ cwd' = procCwd
  /\ LET withSrc == IF ~Exists(dependancySrcDir)
                    THEN Makedirs(fs, dependancySrcDir) ELSE fs
         withOs == IF (procCwd \o dependancyOsDir) \notin withSrc
                   THEN Makedirs(withSrc, dependancyOsDir) ELSE withSrc
     IN fs' = withOs
  /\ i' = 1
  /\ pc' = "loop"
  /\ UNCHANGED <<prereqs, operatingSystem, procCwd, changed, j, exitArg,
                 exitStatus, log, changedDeps, existed>>
  /\ UNCHANGED outside

\* lines 33-41: the entry's source directory exists
EnterUpdate ==
  /\ pc = "loop"
  /\ i <= Len(deps)
  /\ Exists(SrcOf(deps[i].name))
  /\ changed' = FALSE
  /\ existed' = Append(existed, Exists(SrcOf(deps[i].name)))
  /\ procCwd' = procCwd \o SrcOf(deps[i].name)
  /\ pc' = "check"
  /\ UNCHANGED <<prereqs, fs, operatingSystem, deps, numChanged, cwd, i, j,
                 exitArg, exitStatus, log, changedDeps>>
  /\ UNCHANGED outside

\* mutant: the download branch taken without the test of line 39
EnterDownload_NoElse ==
  /\ pc = "loop"
  /\ i <= Len(deps)
  /\ changed' = FALSE
  /\ existed' = Append(existed, Exists(SrcOf(deps[i].name)))
  /\ procCwd' = procCwd \o dependancySrcDir
  /\ pc' = "download"
  /\ UNCHANGED <<prereqs, fs, operatingSystem, deps, numChanged, cwd, i, j,
                 exitArg, exitStatus, log, changedDeps>>
  /\ UNCHANGED outside

\* lines 33-36 and 51-53: the entry's source directory does not exist
EnterDownload ==
  /\ pc = "loop"
  /\ i <= Len(deps)
  /\ ~Exists(SrcOf(deps[i].name))
  /\ changed' = FALSE
  /\ existed' = Append(existed, Exists(SrcOf(deps[i].name)))
  /\ procCwd' = procCwd \o dependancySrcDir
  /\ pc' = "download"
  /\ UNCHANGED <<prereqs, fs, operatingSystem, deps, numChanged, cwd, i, j,
                 exitArg, exitStatus, log, changedDeps>>
  /\ UNCHANGED outside

\* lines 41-45: the update-needed command, run with subprocess.call
UpdateNeeded ==
  /\ pc = "check"
  /\ \E code \in ExitCodes :
       /\ log' = Append(log, Entry("update-needed", 0, code, <<>>))
       /\ pc' = IF CallSucceeded(code) THEN "restore" ELSE "update"
  /\ UNCHANGED <<prereqs, fs, operatingSystem, procCwd, deps, numChanged,
                 cwd, i, changed, j, exitArg, exitStatus, changedDeps,
                 existed>>
  /\ UNCHANGED outside

\* mutant: line 48 left out
Update_NoCount ==
  /\ pc = "update"
  /\ \E code \in ExitCodes :
       /\ log' = Append(log, Entry("update", 0, code, <<>>))
       /\ IF CheckCallRaises(code)
          THEN /\ Raise
               /\ UNCHANGED <<numChanged, changed, changedDeps>>
          ELSE /\ UNCHANGED numChanged
               /\ changed' = TRUE
               /\ changedDeps' = changedDeps \cup {i}
               /\ pc' = "restore"
               /\ UNCHANGED exitStatus
  /\ UNCHANGED <<prereqs, fs, operatingSystem, procCwd, deps, cwd, i, j,
                 exitArg, existed>>
  /\ UNCHANGED outside

\* lines 46-49: the update command, run with subprocess.check_call
Update ==
  /\ pc = "update"
  /\ \E code \in ExitCodes :
       /\ log' = Append(log, Entry("update", 0, code, <<>>))
       /\ IF CheckCallRaises(code)
          THEN /\ Raise
               /\ UNCHANGED <<numChanged, changed, changedDeps>>
          ELSE /\ numChanged' = numChanged + 1
               /\ changed' = TRUE
               /\ changedDeps' = changedDeps \cup {i}
               /\ pc' = "restore"
               /\ UNCHANGED exitStatus
  /\ UNCHANGED <<prereqs, fs, operatingSystem, procCwd, deps, cwd, i, j,
                 exitArg, existed>>
  /\ UNCHANGED outside

\* mutant: line 50 left out
RestoreAfterUpdate_NoChdir ==
  /\ pc = "restore"
  /\ UNCHANGED procCwd
  /\ pc' = "gate"
  /\ UNCHANGED <<prereqs, fs, operatingSystem, deps, numChanged, cwd, i,
                 changed, j, exitArg, exitStatus, log, changedDeps, existed>>
  /\ UNCHANGED outside

\* line 50: os.chdir(cwd) at the end of the update branch
RestoreAfterUpdate ==
  /\ pc = "restore"
  /\ procCwd' = cwd
  /\ pc' = "gate"
  /\ UNCHANGED <<prereqs, fs, operatingSystem, deps, numChanged, cwd, i,
                 changed, j, exitArg, exitStatus, log, changedDeps, existed>>
  /\ UNCHANGED outside

\* mutant: line 58 left out
Download_NotChanged ==
  /\ pc = "download"
  /\ \E code \in ExitCodes, creates \in BOOLEAN :
       /\ log' = Append(log, Entry("download", 0, code, <<>>))
       /\ fs' = IF creates THEN fs \cup {Append(procCwd, deps[i].name)}
                           ELSE fs
       /\ IF CheckCallRaises(code)
          THEN /\ Raise
               /\ UNCHANGED <<procCwd, numChanged, changed, changedDeps>>
          ELSE /\ procCwd' = cwd
               /\ numChanged' = numChanged + 1
               /\ UNCHANGED changed
               /\ changedDeps' = changedDeps \cup {i}
               /\ pc' = "gate"
               /\ UNCHANGED exitStatus
  /\ UNCHANGED <<prereqs, operatingSystem, deps, cwd, i, j, exitArg,
                 existed>>
  /\ UNCHANGED outside

\* lines 54-58: the download command, run with subprocess.check_call in
\* .prereqs/Sources; what it leaves on disk is the command's own business
Download ==
  /\ pc = "download"
  /\ \E code \in ExitCodes, creates \in BOOLEAN :
       /\ log' = Append(log, Entry("download", 0, code, <<>>))
       /\ fs' = IF creates THEN fs \cup {Append(procCwd, deps[i].name)}
                           ELSE fs
       /\ IF CheckCallRaises(code)
          THEN /\ Raise
               /\ UNCHANGED <<procCwd, numChanged, changed, changedDeps>>
          ELSE /\ procCwd' = cwd
               /\ numChanged' = numChanged + 1
               /\ changed' = TRUE
               /\ changedDeps' = changedDeps \cup {i}
               /\ pc' = "gate"
               /\ UNCHANGED exitStatus
  /\ UNCHANGED <<prereqs, operatingSystem, deps, cwd, i, j, exitArg,
                 existed>>
  /\ UNCHANGED outside

\* line 61, changed is False: on to the next entry
SkipBuild ==
  /\ pc = "gate"
  /\ changed # TRUE
  /\ i' = i + 1
  /\ pc' = "loop"
  /\ UNCHANGED <<prereqs, fs, operatingSystem, procCwd, deps, numChanged,
                 cwd, changed, j, exitArg, exitStatus, log, changedDeps,
                 existed>>
  /\ UNCHANGED outside

\* mutant: the build entered without the test of line 61
BeginBuild_Always ==
  /\ pc = "gate"
  /\ IF Exists(SrcOf(deps[i].name))
     THEN /\ procCwd' = procCwd \o SrcOf(deps[i].name)
          /\ j' = 1
          /\ pc' = "build"
          /\ UNCHANGED exitStatus
     ELSE /\ Raise
          /\ UNCHANGED <<procCwd, j>>
  /\ UNCHANGED <<prereqs, fs, operatingSystem, deps, numChanged, cwd, i,
                 changed, exitArg, log, changedDeps, existed>>
  /\ UNCHANGED outside

\* lines 61-66, changed is True: os.chdir into the entry's source
\* directory, which raises OSError when the directory is not there
BeginBuild ==
  /\ pc = "gate"
  /\ changed = TRUE
  /\ IF Exists(SrcOf(deps[i].name))
     THEN /\ procCwd' = procCwd \o SrcOf(deps[i].name)
          /\ j' = 1
          /\ pc' = "build"
          /\ UNCHANGED exitStatus
     ELSE /\ Raise
          /\ UNCHANGED <<procCwd, j>>
  /\ UNCHANGED <<prereqs, fs, operatingSystem, deps, numChanged, cwd, i,
                 changed, exitArg, log, changedDeps, existed>>
  /\ UNCHANGED outside

\* mutant: os.getcwd() at the build step taken for the captured cwd
TargetDir_FromGetcwd == procCwd \o dependancyOsDir

\* the value of tmpEnv["TARGETDIR"], line 66
TargetDir == cwd \o dependancyOsDir

\* lines 67-69: one build command, run with subprocess.check_call
BuildStep ==
  /\ pc = "build"
  /\ j <= Len(deps[i].build)
  /\ \E code \in ExitCodes :
       /\ log' = Append(log, Entry("build", deps[i].build[j], code, TargetDir))
       /\ IF CheckCallRaises(code)
          THEN /\ Raise
               /\ UNCHANGED j
          ELSE /\ j' = j + 1
               /\ UNCHANGED <<pc, exitStatus>>
  /\ UNCHANGED <<prereqs, fs, operatingSystem, procCwd, deps, numChanged,
                 cwd, i, changed, exitArg, changedDeps, existed>>
  /\ UNCHANGED outside

\* mutant: the loop does not move on to the next entry
EndBuild_NoAdvance ==
  /\ pc = "build"
  /\ j > Len(deps[i].build)
  /\ procCwd' = cwd
  /\ i' = i
  /\ pc' = "loop"
  /\ UNCHANGED <<prereqs, fs, operatingSystem, deps, numChanged, cwd,
                 changed, j, exitArg, exitStatus, log, changedDeps, existed>>
  /\ UNCHANGED outside

\* line 70: the build loop is through, os.chdir(cwd), next entry
EndBuild ==
  /\ pc = "build"
  /\ j > Len(deps[i].build)
  /\ procCwd' = cwd
  /\ i' = i + 1
  /\ pc' = "loop"
  /\ UNCHANGED <<prereqs, fs, operatingSystem, deps, numChanged, cwd,
                 changed, j, exitArg, exitStatus, log, changedDeps, existed>>
  /\ UNCHANGED outside

\* lines 72-73: exit(numChanged) after the last entry
Exit ==
  /\ pc = "loop"
  /\ i > Len(deps)
  /\ exitArg' = numChanged
  /\ exitStatus' = StatusOf(numChanged)
  /\ pc' = "exited"
  /\ UNCHANGED <<prereqs, fs, operatingSystem, procCwd, deps, numChanged,
                 cwd, i, changed, j, log, changedDeps, existed>>
  /\ UNCHANGED outside

Next ==
  \/ LoadFail
  \/ Setup
  \/ EnterUpdate
  \/ EnterDownload
  \/ UpdateNeeded
  \/ Update
  \/ RestoreAfterUpdate
  \/ Download
  \/ SkipBuild
  \/ BeginBuild
  \/ BuildStep
  \/ EndBuild
  \/ Exit

Spec == Init /\ [][Next]_vars

\* A manifest as long as the exit status is wide: the first entry has one
\* build command, the others none, and every entry has its own name.
WideLen == StatusModulus
WideManifest ==
  [k \in 1..WideLen |->
     [name |-> ToString(k), build |-> IF k = 1 THEN Cmds(1) ELSE Cmds(0)]]

InitWide ==
  /\ operatingSystem = "Linux"
  /\ prereqs \in {[present |-> TRUE, content |-> WideManifest],
                  [present |-> FALSE, content |-> <<>>]}
  /\ fs \in {{StartDir},
             {StartDir} \cup Prefixes(StartDir \o SrcOf("1"))}
  /\ procCwd = StartDir
  /\ pc = "load"
  /\ deps = <<>>
  /\ numChanged = 0
  /\ cwd = <<>>
  /\ i = 0
  /\ changed = FALSE
  /\ j = 0
  /\ exitArg = -1
  /\ exitStatus = -1
  /\ log = <<>>
  /\ changedDeps = {}
  /\ existed = <<>>
  /\ run = 1
  /\ aborted = {}
  /\ responses = <<>>

SpecWide == InitWide /\ [][Next]_vars

\* ------------------------------------------------ reading the history
\* the positions of the log at which entry k ran a command of that kind
At(kind, k) ==
  {n \in 1..Len(log) : log[n].kind = kind /\ log[n].dep = k}

\* the commands entry k has started, in the order it started them
Of(k) == SelectSeq(log, LAMBDA e : e.dep = k)

\* the kinds of those commands, and the build steps among them
Kinds(k) == LET o == Of(k) IN [n \in 1..Len(o) |-> o[n].kind]
Steps(k) == LET o == Of(k) IN [n \in 1..Len(o) |-> o[n].step]

\* how often a kind occurs in a sequence of kinds
Count(kinds, kind) == Cardinality({n \in 1..Len(kinds) : kinds[n] = kind})

\* the log holds a command of that kind, with that exit-code test, of entry k
Returned(kind, k, Test(_)) ==
  \E n \in 1..Len(log) :
    log[n].kind = kind /\ log[n].dep = k /\ Test(log[n].code)
Zero(code) == code = 0
Nonzero(code) == code # 0

\* the positions at which a download or an update returned 0
Acquisitions ==
  {n \in 1..Len(log) :
     log[n].kind \in {"download", "update"} /\ log[n].code = 0}

\* entry k has taken its acquisition branch to the end of its first command
Acquired(k) ==
  \/ k < i
  \/ k = i /\ pc \in {"update", "restore", "gate", "build", "raised"}

\* the loop is through with entry k
Completed(k) == k < i

Terminated == pc \in {"exited", "raised"}

IsPrefix(s, t) == Len(s) <= Len(t) /\ s = SubSeq(t, 1, Len(s))

\* what an entry that updates, or downloads, runs when nothing fails
UpdatePlan(k) ==
  <<"update-needed", "update">> \o [n \in 1..Len(deps[k].build) |-> "build"]
DownloadPlan(k) ==
  <<"download">> \o [n \in 1..Len(deps[k].build) |-> "build"]
UpdateSteps(k) == <<0, 0>> \o deps[k].build
DownloadSteps(k) == <<0>> \o deps[k].build

\* C1: when the run reaches exit(numChanged), the value passed to exit is
\* the number of entries whose changed flag was set in this run, these are
\* the entries whose download or update returned 0, and an entry whose
\* update-needed check returned 0 is not among them.
C1_ExitCountsChanged ==
  pc = "exited" =>
    /\ exitArg = Cardinality(changedDeps)
    /\ changedDeps = {log[n].dep : n \in Acquisitions}
    /\ \A n \in 1..Len(log) :
         (log[n].kind = "update-needed" /\ log[n].code = 0)
           => log[n].dep \notin changedDeps

C1_Witness ==
  /\ pc = "exited"
  /\ Len(deps) = 2
  /\ exitArg = 1
  /\ \E n \in 1..Len(log) : log[n].kind = "update-needed" /\ log[n].code = 0

\* C2: in every state in which the process has terminated, normally or
\* because a command failed, the working directory of the process is the
\* directory it started in.
C2_CwdRestoredAtTermination ==
  Terminated => procCwd = StartDir

\* C3: every entry runs exactly one of the two acquisition paths, the
\* download or the update-needed check (with the update only after the
\* check), never both and, once the entry is past its first command, never
\* neither; which one is the result of the existence test made when the
\* entry was reached.
C3_ExactlyOneAcquisition ==
  \A k \in 1..Len(deps) :
    LET kinds == Kinds(k)
        dl == Count(kinds, "download")
        ck == Count(kinds, "update-needed")
        up == Count(kinds, "update")
    IN /\ dl + ck <= 1
       /\ up <= ck
       /\ k > Len(existed) => dl + ck = 0
       /\ k <= Len(existed) => (existed[k] => dl = 0) /\ (~existed[k] => ck = 0)
       /\ Acquired(k) => dl + ck = 1

C3_Witness ==
  /\ pc = "exited"
  /\ Len(deps) = 2
  /\ existed = <<FALSE, TRUE>>
  /\ At("download", 1) # {}
  /\ At("update-needed", 2) # {}

\* C4: a download, update or build command that exits nonzero is the last
\* command the run starts and the run is aborted there; an aborted run takes
\* no further step; and no directory is ever removed.
C4_FailureAborts ==
  /\ [](\A n \in 1..Len(log) :
          (log[n].kind # "update-needed" /\ log[n].code # 0)
            => n = Len(log) /\ pc = "raised" /\ log[n].dep = i)
  /\ [][pc = "raised" => UNCHANGED vars]_vars
  /\ [][fs \subseteq fs']_vars

C4_Witness ==
  /\ pc = "raised"
  /\ Len(log) > 1
  /\ log[Len(log)].kind = "build"
  /\ log[Len(log)].code # 0
  /\ log[Len(log)].step < Len(deps[i].build)
  /\ i < Len(deps)
  /\ ~existed[i]
  /\ (StartDir \o SrcOf(deps[i].name)) \in fs

\* C5: an entry whose source directory existed and whose update-needed
\* check returned 0 runs neither the update nor a build command, and is not
\* counted: it is not in the changed set and the count is the number of
\* downloads and updates that returned 0.
C5_UpToDateRunsNothing ==
  \A k \in 1..Len(deps) :
    Returned("update-needed", k, Zero) =>
      /\ existed[k]
      /\ Kinds(k) = <<"update-needed">>
      /\ k \notin changedDeps
      /\ numChanged = Cardinality(Acquisitions)

C5_Witness ==
  /\ pc = "exited"
  /\ \E k \in 1..Len(deps) :
       /\ deps[k].build # <<>>
       /\ \E n \in At("update-needed", k) : log[n].code = 0
  /\ numChanged = 1

\* C6: an entry whose source directory existed and whose update-needed
\* check returned any nonzero code runs the check, the update and the build
\* commands in the declared order and nothing else; once the loop is through
\* with the entry each of them has run exactly once, and the entry was
\* counted once.
C6_StaleUpdatesThenBuilds ==
  \A k \in 1..Len(deps) :
    Returned("update-needed", k, Nonzero) =>
      LET kinds == Kinds(k)
          steps == Steps(k)
      IN /\ existed[k]
         /\ IsPrefix(kinds, UpdatePlan(k))
         /\ IsPrefix(steps, UpdateSteps(k))
         /\ Acquired(k)
         /\ (pc = "update" /\ k = i) \/ Count(kinds, "update") = 1
         /\ Completed(k) =>
              /\ kinds = UpdatePlan(k)
              /\ steps = UpdateSteps(k)
              /\ k \in changedDeps
              /\ Cardinality({n \in Acquisitions : log[n].dep = k}) = 1
         /\ numChanged = Cardinality(Acquisitions)

C6_Witness ==
  /\ pc = "exited"
  /\ \E k \in 1..Len(deps) :
       /\ Len(deps[k].build) = 2
       /\ \E n \in At("update-needed", k) : log[n].code = 2
       /\ Kinds(k) = UpdatePlan(k)

\* the run was aborted by a build command of entry k
BuildFailed(k) ==
  /\ log # <<>>
  /\ log[Len(log)].kind = "build"
  /\ log[Len(log)].dep = k
  /\ log[Len(log)].code # 0

\* the part of C7 that does not depend on what the download left on disk
DownloadedOnce(k, kinds) ==
  /\ ~existed[k]
  /\ IsPrefix(kinds, DownloadPlan(k))
  /\ IsPrefix(Steps(k), DownloadSteps(k))
  /\ k \in changedDeps
  /\ Cardinality({n \in Acquisitions : log[n].dep = k}) = 1
  /\ numChanged = Cardinality(Acquisitions)

\* C7 as stated: an entry without a source directory runs the download and
\* neither the check nor the update; after a download that returned 0 the
\* build commands run in the declared order, all of them unless one of them
\* fails, and the entry is counted once.
C7_DownloadThenBuilds ==
  \A k \in 1..Len(deps) :
    Returned("download", k, Zero) =>
      LET kinds == Kinds(k)
      IN /\ DownloadedOnce(k, kinds)
         /\ Terminated => (kinds = DownloadPlan(k) \/ BuildFailed(k))

\* C7 as amended: the same, for a download that left the directory
\* .prereqs/Sources/<name> behind.
C7_DownloadThenBuildsInDirectory ==
  \A k \in 1..Len(deps) :
    Returned("download", k, Zero) =>
      LET kinds == Kinds(k)
      IN /\ DownloadedOnce(k, kinds)
         /\ (Terminated /\ (StartDir \o SrcOf(deps[k].name)) \in fs)
              => (kinds = DownloadPlan(k) \/ BuildFailed(k))

C7_Witness ==
  /\ pc = "exited"
  /\ \E k \in 1..Len(deps) :
       /\ Len(deps[k].build) = 2
       /\ At("download", k) # {}
       /\ Kinds(k) = DownloadPlan(k)
       /\ Steps(k) = <<0, 1, 2>>

\* C8: when prereqs.json cannot be opened the run ends with exit status 0
\* and has started no external command, whatever directories exist.
C8_MissingManifestExitsZero ==
  ~prereqs.present =>
    /\ pc \in {"load", "exited"}
    /\ log = <<>>
    /\ pc = "exited" => exitArg = 0 /\ exitStatus = 0

C8_Witness ==
  /\ ~prereqs.present
  /\ pc = "exited"
  /\ exitStatus = 0
  /\ (StartDir \o dependancySrcDir) \notin fs
  /\ (StartDir \o dependancyOsDir) \notin fs

\* C9: with a manifest that is present and has no entries the run starts no
\* external command and ends with exit status 0.
C9_EmptyManifestExitsZero ==
  (prereqs.present /\ prereqs.content = <<>>) =>
    /\ pc \in {"load", "loop", "exited"}
    /\ log = <<>>
    /\ pc = "exited" => exitArg = 0 /\ exitStatus = 0

C9_Witness ==
  /\ prereqs.present
  /\ prereqs.content = <<>>
  /\ pc = "exited"
  /\ exitStatus = 0

\* C10: the exit status of a run that reached exit(numChanged) is 0 exactly
\* when no entry was downloaded or updated in the run.
C10_StatusZeroIffUnchanged ==
  pc = "exited" => (exitStatus = 0 <=> changedDeps = {})

\* the two commands an entry can start with
AcquisitionKinds == {"download", "update-needed"}

\* C11: the commands are started one after the other in manifest order: no
\* command of an entry later than the current one has been started, the
\* entry of a command is never before the entry of the command started
\* before it, an entry starts with its download or its update-needed check,
\* and once an entry has started a build command it starts only build
\* commands. (A command is one step: the call blocks until the exit code
\* is there.)
C11_SequentialInManifestOrder ==
  /\ \A n \in 1..Len(log) : log[n].dep >= 1 /\ log[n].dep <= i
  /\ log # <<>> => log[1].kind \in AcquisitionKinds
  /\ \A n \in 1..(Len(log) - 1) :
       LET a == log[n]
           b == log[n + 1]
       IN /\ a.dep <= b.dep
          /\ a.dep < b.dep => b.kind \in AcquisitionKinds
          /\ a.dep = b.dep => b.kind \notin AcquisitionKinds
          /\ (a.dep = b.dep /\ a.kind = "build") => b.kind = "build"

C11_Witness ==
  /\ pc = "exited"
  /\ Len(deps) = 2
  /\ Len(log) >= 5
  /\ \E n \in 1..(Len(log) - 1) :
       /\ log[n].kind = "build"
       /\ log[n].dep = 1
       /\ log[n + 1].dep = 2
  /\ log[Len(log)].kind = "build"

\* C12: every build command is started with TARGETDIR set to the directory
\* .prereqs/<OS-name> under the working directory the process started in,
\* which is not the directory the build command runs in; no other command
\* is given the variable.
C12_TargetDirOnBuildsOnly ==
  \A n \in 1..Len(log) :
    IF log[n].kind = "build"
    THEN log[n].env = StartDir \o <<".prereqs", operatingSystem>>
    ELSE log[n].env = <<>>

C12_Witness ==
  /\ \E n \in 1..Len(log) :
       /\ log[n].kind = "build"
       /\ log[n].dir # StartDir
       /\ log[n].env = StartDir \o <<".prereqs", operatingSystem>>
  /\ \E n \in 1..Len(log) : log[n].kind = "update" /\ log[n].env = <<>>

\* C14: a download is started in .prereqs/Sources and every other command
\* in .prereqs/Sources/<name> of its entry, both under the directory the
\* process started in; and wherever a relative chdir is about to be made
\* (at the head of the loop and at the build gate) the working directory is
\* the directory the process started in.
C14_CommandsRunInTheirDirectory ==
  /\ pc \in {"loop", "gate"} => (procCwd = StartDir /\ cwd = StartDir)
  /\ \A n \in 1..Len(log) :
       log[n].dir = IF log[n].kind = "download"
                    THEN StartDir \o dependancySrcDir
                    ELSE StartDir \o SrcOf(deps[log[n].dep].name)

C14_Witness ==
  /\ pc = "gate"
  /\ i = 2
  /\ procCwd = StartDir
  /\ \E n \in 1..Len(log) : log[n].kind = "download" /\ log[n].dep = 1
  /\ \E n \in 1..Len(log) : log[n].kind = "build" /\ log[n].dep = 1
  /\ log[Len(log)].kind = "update"

RootsExist ==
  /\ (StartDir \o dependancySrcDir) \in fs
  /\ (StartDir \o dependancyOsDir) \in fs

\* C16: once the manifest is loaded both roots .prereqs/Sources and
\* .prereqs/<OS-name> exist, so they do before the first command is started;
\* the setup step adds the two roots with their ancestors and nothing else;
\* no step removes a directory; and with the manifest missing no step
\* changes the directories at all.
C16_RootsCreatedAndKept ==
  /\ []((prereqs.present /\ pc # "load") => RootsExist)
  /\ [](log # <<>> => RootsExist)
  /\ [][(pc = "load" /\ prereqs.present) =>
          fs' = fs \cup Prefixes(StartDir \o dependancySrcDir)
                   \cup Prefixes(StartDir \o dependancyOsDir)]_vars
  /\ [][fs \subseteq fs']_vars
  /\ [][~prereqs.present => fs' = fs]_vars

C16_Witness ==
  /\ prereqs.present
  /\ pc = "raised"
  /\ log # <<>>
  /\ RootsExist
  /\ Cardinality(fs) = 4

\* ------------------------------------------------- http_test_server.py
MaxRequests == 2

\* the request methods myHandler defines a do_ method for, and sample paths
\* (self.path is the request target as sent, query string included)
Methods == {"GET", "HEAD", "POST", "PUT"}
Paths == {"/hello", "/", "/hello/", "/hello?x=1"}

\* mutant: the body written whatever the method
Handler_BodyAlways(command, path) ==
  IF path = "/hello"
  THEN [status |-> 200,
        headers |-> << <<"Content-type", "text/plain">> >>,
        ended |-> TRUE,
        body |-> "Hello World"]
  ELSE [status |-> 404, headers |-> <<>>, ended |-> FALSE, body |-> ""]

\* myHandler._handler, lines 18-28: what it writes for one request;
\* ended tells whether end_headers() was called
Handler(command, path) ==
  IF path = "/hello"
  THEN [status |-> 200,
        headers |-> << <<"Content-type", "text/plain">> >>,
        ended |-> TRUE,
        body |-> IF command = "GET" THEN "Hello World" ELSE ""]
  ELSE [status |-> 404, headers |-> <<>>, ended |-> FALSE, body |-> ""]

\* one request served: the response _handler writes is recorded with it
Serve(command, path) ==
  /\ responses' = Append(responses,
                         [command |-> command, path |-> path,
                          response |-> Handler(command, path)])
  /\ UNCHANGED <<scriptVars, run, aborted>>

\* lines 30-32
do_GET ==
  /\ Len(responses) < MaxRequests
  /\ \E path \in Paths : Serve("GET", path)

\* lines 34-36
do_HEAD ==
  /\ Len(responses) < MaxRequests
  /\ \E path \in Paths : Serve("HEAD", path)

\* lines 38-40
do_POST ==
  /\ Len(responses) < MaxRequests
  /\ \E path \in Paths : Serve("POST", path)

\* lines 42-44
do_PUT ==
  /\ Len(responses) < MaxRequests
  /\ \E path \in Paths : Serve("PUT", path)

\* the server after HTTPServer(('', PORT_NUMBER), myHandler), lines 48-55;
\* no invocation of update_prereqs.py takes part
InitHttp ==
  /\ operatingSystem \in OSNames
  /\ prereqs = [present |-> FALSE, content |-> <<>>]
  /\ fs = {StartDir}
  /\ procCwd = StartDir
  /\ pc = "load"
  /\ deps = <<>>
  /\ numChanged = 0
  /\ cwd = <<>>
  /\ i = 0
  /\ changed = FALSE
  /\ j = 0
  /\ exitArg = -1
  /\ exitStatus = -1
  /\ log = <<>>
  /\ changedDeps = {}
  /\ existed = <<>>
  /\ run = 1
  /\ aborted = {}
  /\ responses = <<>>

NextHttp == do_GET \/ do_HEAD \/ do_POST \/ do_PUT

SpecHttp == InitHttp /\ [][NextHttp]_vars

\* C13: every request served got the response its path and method alone
\* determine: for the path /hello status 200 with Content-type text/plain,
\* and the body "Hello World" exactly when the method is GET (no body
\* otherwise); for any other path status 404 and no body; and two requests
\* with the same method and path got the same response wherever they stand
\* in the sequence of requests.
C13_ResponseByPathAndMethod ==
  /\ \A n \in 1..Len(responses) :
       LET q == responses[n]
           r == q.response
       IN IF q.path = "/hello"
          THEN /\ r.status = 200
               /\ r.headers = << <<"Content-type", "text/plain">> >>
               /\ (r.body = "Hello World") <=> (q.command = "GET")
               /\ q.command # "GET" => r.body = ""
          ELSE /\ r.status = 404
               /\ r.body = ""
  /\ \A n, m \in 1..Len(responses) :
       (responses[n].command = responses[m].command
          /\ responses[n].path = responses[m].path)
         => responses[n].response = responses[m].response

C13_Witness ==
  /\ Len(responses) = 2
  /\ responses[1].command = "HEAD"
  /\ responses[1].path = "/hello"
  /\ responses[1].response.status = 200
  /\ responses[1].response.body = ""
  /\ responses[2].command = "GET"
  /\ responses[2].path = "/hello"
  /\ responses[2].response.body = "Hello World"

\* ------------------------------------------------- several invocations
MaxRuns == 2
MaxRunDeps == 1

\* the script is run again once the invocation before it has ended: a new
\* process in the same start directory, with the manifest and the
\* directories as the earlier invocations left them
Invoke ==
  /\ Terminated
  /\ run < MaxRuns
  /\ run' = run + 1
  /\ aborted' = aborted \cup {k \in 1..Len(deps) : BuildFailed(k)}
  /\ procCwd' = StartDir
  /\ pc' = "load"
  /\ deps' = <<>>
  /\ numChanged' = 0
  /\ cwd' = <<>>
  /\ i' = 0
  /\ changed' = FALSE
  /\ j' = 0
  /\ exitArg' = -1
  /\ exitStatus' = -1
  /\ log' = <<>>
  /\ changedDeps' = {}
  /\ existed' = <<>>
  /\ UNCHANGED <<prereqs, fs, operatingSystem, responses>>

NextRuns == Next \/ Invoke

\* the first invocation starts as any invocation does, on a manifest of at
\* most MaxRunDeps entries
InitRuns ==
  /\ Init
  /\ Len(prereqs.content) <= MaxRunDeps

SpecRuns == InitRuns /\ [][NextRuns]_vars

\* C15: in every invocation a build command of an entry is started only
\* after a download or an update of that entry returned 0 in the same
\* invocation; and an entry a build command of which failed in an earlier
\* invocation finds its source directory when it is reached, so it takes
\* the check branch, and a build command of it is started only if the check
\* of this invocation returned nonzero.
C15_BuildOnlyAfterAcquisition ==
  /\ \A n \in 1..Len(log) :
       log[n].kind = "build" =>
         \E m \in 1..(n - 1) :
           /\ log[m].dep = log[n].dep
           /\ log[m].kind \in {"download", "update"}
           /\ log[m].code = 0
  /\ \A k \in aborted :
       /\ k <= Len(existed) => existed[k]
       /\ (\E n \in 1..Len(log) : log[n].kind = "build" /\ log[n].dep = k)
            => Returned("update-needed", k, Nonzero)

C15_Witness ==
  /\ run = 2
  /\ pc = "exited"
  /\ 1 \in aborted
  /\ Returned("update-needed", 1, Nonzero)
  /\ \E n \in 1..Len(log) : log[n].kind = "build" /\ log[n].dep = 1
====
